---- MODULE Spec2Model ----
(***************************************************************************)
(* Density-function graph of pumpkin-world (world_gen/noise/density).      *)
(*                                                                         *)
(* The heap `nodes` holds every Arc<DensityFunction> allocated so far; a   *)
(* handle is an index into it, handle equality is Arc identity.  A node is *)
(* a record whose fields carry the names of the Rust struct it models.     *)
(* An f64 value is modelled by the integer number of 1/One units it holds  *)
(* (fixed point); sums are exact, products and quotients exact whenever    *)
(* the result is a whole number of units.  f64 and f32 rounding is not     *)
(* modelled.                                                               *)
(***************************************************************************)
EXTENDS Integers, Sequences, FiniteSets, TLC

VARIABLES nodes, ret

vars == <<nodes, ret>>

(* ------------------------------ bounds --------------------------------- *)

\* Number of Arc allocations the graph builder may make.
MaxNodes == 3

\* Number of successive apply() calls made on one graph and its rewrites.
MaxApply == 2

\* Length of the densities slice handed to fill().
MaxLen == 2

\* 1f64: the number of fixed-point units in 1.0.  1500 is the least unit
\* count that keeps the builder's literals 1.564, 2/3, 0.25 and 0.1 whole.
One == 1500

\* Constant values and Range limits the builder draws from: 0.0, 1.0, 2.0.
Values == {0, One, 2 * One}

\* (min, max) pairs of the Range nodes built.
RangeBounds == {<<One, 2 * One>>}

\* (from, to, from_val, to_val) of the ClampedY nodes built.
YClampedParams == {<<0, 2, 0, 2 * One>>, <<0, 2, 2 * One, 0>>}

\* Block heights sampled.
Heights == {0, 1, 2}

\* chunk::MIN_HEIGHT and chunk::MAX_COLUMN_HEIGHT.
MIN_HEIGHT == -64

MAX_COLUMN_HEIGHT == 384

\* (from, to, from_val, to_val) of the ClampedY nodes of the built-in graphs:
\* the root `y`, the depth gradient of sloped cheese, the gradient of
\* caves_spaghetti_2d_overworld.
BuiltInYClamped ==
    {<<MIN_HEIGHT * 2, MAX_COLUMN_HEIGHT * 2,
       MIN_HEIGHT * 2 * One, MAX_COLUMN_HEIGHT * 2 * One>>,
     <<-64, 320, (1564 * One) \div 1000, -((3 * One) \div 2)>>,
     <<-64, 320, 8 * One, -40 * One>>}

\* Block heights of a column, below, on, between and above the limits of the
\* built-in gradients.
Column == {-130, -128, -64, 0, 128, 320, 322, 768, 770}

ColumnPos == [x : {0, 4}, y : Column, z : {0}]

NoisePos == [x : {0}, y : Heights, z : {0}]

WrapperType == {"Cache2D", "CacheFlat", "CacheOnce", "Interpolated", "CacheCell"}

(* ------------------------------ nodes ---------------------------------- *)

ConstantFunction_new(value) == [kind |-> "Constant", value |-> value]

WrapperFunction_new(input, wrapper) ==
    [kind |-> "Wrapper", input |-> input, wrapper |-> wrapper]

RangeFunction_new(input, min, max, in_range, out_range) ==
    [kind |-> "Range", input |-> input, min |-> min, max |-> max,
     in_range |-> in_range, out_range |-> out_range]

BeardifyerFunction_new == [kind |-> "Beardifyer"]

YClampedFunction_new(from, to, from_val, to_val) ==
    [kind |-> "ClampedY", from |-> from, to |-> to,
     from_val |-> from_val, to_val |-> to_val]

\* math::BinaryFunction, binary_type one of "Add", "Mul".
BinaryFunction_new(binary_type, arg1, arg2) ==
    [kind |-> "Binary", binary_type |-> binary_type, arg1 |-> arg1, arg2 |-> arg2]

\* math::LinearFunction: slope * input + offset.
LinearFunction_new(slope, offset, input) ==
    [kind |-> "Linear", slope |-> slope, offset |-> offset, input |-> input]

\* noise::NoiseFunction over an InternalNoise, `noise` a record
\* [max_value, table] standing for the seeded sampler.
NoiseFunction_new(noise, xz_scale, y_scale) ==
    [kind |-> "Noise", noise |-> noise, xz_scale |-> xz_scale, y_scale |-> y_scale]

\* unary::UnaryFunction, unary_type one of "Abs", "Square", "Cube", "HalfNeg",
\* "QuartNeg", "Squeeze".
UnaryFunction_create(unary_type, input) ==
    [kind |-> "Unary", unary_type |-> unary_type, input |-> input]

\* unary::ClampFunction
ClampFunction_new(input, min, max) ==
    [kind |-> "Clamp", input |-> input, min |-> min, max |-> max]

BlendAlphaFunction_new == [kind |-> "BlendAlpha"]

BlendOffsetFunction_new == [kind |-> "BlendOffset"]

\* offset::ShiftAFunction and offset::ShiftBFunction over an InternalNoise.
ShiftAFunction_new(offset_noise) == [kind |-> "ShiftA", offset_noise |-> offset_noise]

ShiftBFunction_new(offset_noise) == [kind |-> "ShiftB", offset_noise |-> offset_noise]

\* noise::ShiftedNoiseFunction
ShiftedNoiseFunction_new(shift_x, shift_y, shift_z, xz_scale, y_scale, noise) ==
    [kind |-> "ShiftedNoise", shift_x |-> shift_x, shift_y |-> shift_y,
     shift_z |-> shift_z, xz_scale |-> xz_scale, y_scale |-> y_scale,
     noise |-> noise]

\* noise::InterpolatedNoiseSampler::create_base_3d_noise_function; `noise`
\* stands for the sampler's own seeded noise.
InterpolatedNoiseSampler_new(xz_scale, y_scale, xz_factor, y_factor, smear, noise) ==
    [kind |-> "InterpolatedNoise", xz_scale |-> xz_scale, y_scale |-> y_scale,
     xz_factor |-> xz_factor, y_factor |-> y_factor, smear |-> smear,
     noise |-> noise]

\* spline::SplineFunction over a terrain spline: `coordinates` are the
\* density functions its axes read, `table` its values.
SplineFunction_new(name, coordinates, amplified, table) ==
    [kind |-> "Spline", name |-> name, coordinates |-> coordinates,
     amplified |-> amplified, table |-> table]

\* Arc::new(node): the node is stored at a fresh handle.
Arc_new(heap, node) == Append(heap, node)

\* `let x = ...;` of the source: x is evaluated, then F of its value.
With(x, F(_)) == CHOOSE r \in {F(v) : v \in {x}} : TRUE

f64_min(a, b) == IF a <= b THEN a ELSE b

f64_max(a, b) == IF a >= b THEN a ELSE b

\* a * b on f64 values.
f64_mul(a, b) == (a * b) \div One

(* ------------------------------ sample --------------------------------- *)

\* noise::clamped_map: linear between (old_start, new_start) and
\* (old_end, new_end), constant outside.
clamped_map(value, old_start, old_end, new_start, new_end) ==
    IF value <= old_start THEN new_start
    ELSE IF value >= old_end THEN new_end
    ELSE new_start + ((value - old_start) * (new_end - new_start)) \div (old_end - old_start)

RECURSIVE DensityFunction_sample(_, _, _)

ConstantFunction_sample(heap, self, pos) == self.value

\* Mutant: an unbound CacheFlat wrapper samples its input at height 0.
WrapperFunction_sample_flat(heap, self, pos) ==
    IF self.wrapper = "CacheFlat"
    THEN DensityFunction_sample(heap, self.input, [pos EXCEPT !.y = 0])
    ELSE DensityFunction_sample(heap, self.input, pos)

WrapperFunction_sample(heap, self, pos) ==
    DensityFunction_sample(heap, self.input, pos)

\* Mutant: the upper limit taken as inclusive.
RangeFunction_sample_inclusive_max(heap, self, pos) ==
    LET d == DensityFunction_sample(heap, self.input, pos)
    IN  IF d >= self.min /\ d <= self.max
        THEN DensityFunction_sample(heap, self.in_range, pos)
        ELSE DensityFunction_sample(heap, self.out_range, pos)

RangeFunction_sample(heap, self, pos) ==
    LET d == DensityFunction_sample(heap, self.input, pos)
    IN  IF d >= self.min /\ d < self.max
        THEN DensityFunction_sample(heap, self.in_range, pos)
        ELSE DensityFunction_sample(heap, self.out_range, pos)

BeardifyerFunction_sample(heap, self, pos) == 0

\* Mutant: from_val and to_val exchanged.
YClampedFunction_sample_swapped(heap, self, pos) ==
    clamped_map(pos.y, self.from, self.to, self.to_val, self.from_val)

YClampedFunction_sample(heap, self, pos) ==
    clamped_map(pos.y, self.from, self.to, self.from_val, self.to_val)

BinaryFunction_sample(heap, self, pos) ==
    LET d == DensityFunction_sample(heap, self.arg1, pos)
        e == DensityFunction_sample(heap, self.arg2, pos)
    IN  IF self.binary_type = "Add" THEN d + e ELSE f64_mul(d, e)

LinearFunction_sample(heap, self, pos) ==
    f64_mul(self.slope, DensityFunction_sample(heap, self.input, pos)) + self.offset

\* The seeded sampler is opaque: a fixed function of the f64 coordinates,
\* bounded by max_value; `table` lists the values it takes as x + y + z
\* advances by 1.
InternalNoise_sample(noise, x, y, z) ==
    noise.table[(((x + y + z) \div One) % Len(noise.table)) + 1]

NoiseFunction_sample(heap, self, pos) ==
    InternalNoise_sample(self.noise, pos.x * self.xz_scale,
                         pos.y * self.y_scale, pos.z * self.xz_scale)

\* sample_3d of OffsetDensityFunction: the noise at a quarter of the
\* coordinates, times 4.
OffsetDensityFunction_sample_3d(self, x, y, z) ==
    InternalNoise_sample(self.offset_noise, f64_mul(x, One \div 4),
                         f64_mul(y, One \div 4), f64_mul(z, One \div 4)) * 4

ShiftAFunction_sample(heap, self, pos) ==
    OffsetDensityFunction_sample_3d(self, pos.x * One, 0, pos.z * One)

ShiftBFunction_sample(heap, self, pos) ==
    OffsetDensityFunction_sample_3d(self, pos.z * One, pos.x * One, 0)

ShiftedNoiseFunction_sample(heap, self, pos) ==
    LET d == pos.x * self.xz_scale + DensityFunction_sample(heap, self.shift_x, pos)
        e == pos.y * self.y_scale + DensityFunction_sample(heap, self.shift_y, pos)
        f == pos.z * self.xz_scale + DensityFunction_sample(heap, self.shift_z, pos)
    IN  InternalNoise_sample(self.noise, d, e, f)

InterpolatedNoiseSampler_sample(heap, self, pos) ==
    InternalNoise_sample(self.noise, f64_mul(pos.x * One, self.xz_scale),
                         f64_mul(pos.y * One, self.y_scale),
                         f64_mul(pos.z * One, self.xz_scale))

\* The spline is a black box of the values of its coordinates.
SplineFunction_sample(heap, self, pos) ==
    LET at[i \in 0 .. Len(self.coordinates)] ==
            IF i = 0 THEN 0
            ELSE at[i - 1] + DensityFunction_sample(heap, self.coordinates[i], pos)
    IN  self.table[((at[Len(self.coordinates)] \div One) % Len(self.table)) + 1]

\* Under the no-blend blender.
BlendAlphaFunction_sample(heap, self, pos) == One

BlendOffsetFunction_sample(heap, self, pos) == 0

f64_clamp(a, min, max) == IF a < min THEN min ELSE IF a > max THEN max ELSE a

UnaryFunction_apply_density(self, density) ==
    CASE self.unary_type = "Abs" -> IF density < 0 THEN -density ELSE density
      [] self.unary_type = "Square" -> f64_mul(density, density)
      [] self.unary_type = "Cube" -> f64_mul(f64_mul(density, density), density)
      [] self.unary_type = "HalfNeg" ->
            IF density > 0 THEN density ELSE f64_mul(density, One \div 2)
      [] self.unary_type = "QuartNeg" ->
            IF density > 0 THEN density ELSE f64_mul(density, One \div 4)
      [] self.unary_type = "Squeeze" ->
            LET c == f64_clamp(density, -One, One)
            IN  c \div 2 - f64_mul(f64_mul(c, c), c) \div 24

UnaryFunction_sample(heap, self, pos) ==
    UnaryFunction_apply_density(self, DensityFunction_sample(heap, self.input, pos))

ClampFunction_sample(heap, self, pos) ==
    f64_clamp(DensityFunction_sample(heap, self.input, pos), self.min, self.max)

\* enum_dispatch of DensityFunctionImpl::sample on the node behind handle f.
DensityFunction_sample(heap, f, pos) ==
    LET self == heap[f]
    IN  CASE self.kind = "Constant" -> ConstantFunction_sample(heap, self, pos)
          [] self.kind = "Wrapper" -> WrapperFunction_sample(heap, self, pos)
          [] self.kind = "Range" -> RangeFunction_sample(heap, self, pos)
          [] self.kind = "Beardifyer" -> BeardifyerFunction_sample(heap, self, pos)
          [] self.kind = "ClampedY" -> YClampedFunction_sample(heap, self, pos)
          [] self.kind = "Binary" -> BinaryFunction_sample(heap, self, pos)
          [] self.kind = "Linear" -> LinearFunction_sample(heap, self, pos)
          [] self.kind = "Noise" -> NoiseFunction_sample(heap, self, pos)
          [] self.kind = "ShiftA" -> ShiftAFunction_sample(heap, self, pos)
          [] self.kind = "ShiftB" -> ShiftBFunction_sample(heap, self, pos)
          [] self.kind = "ShiftedNoise" -> ShiftedNoiseFunction_sample(heap, self, pos)
          [] self.kind = "InterpolatedNoise" ->
                InterpolatedNoiseSampler_sample(heap, self, pos)
          [] self.kind = "Spline" -> SplineFunction_sample(heap, self, pos)
          [] self.kind = "BlendAlpha" -> BlendAlphaFunction_sample(heap, self, pos)
          [] self.kind = "BlendOffset" -> BlendOffsetFunction_sample(heap, self, pos)
          [] self.kind = "Unary" -> UnaryFunction_sample(heap, self, pos)
          [] self.kind = "Clamp" -> ClampFunction_sample(heap, self, pos)

(* ------------------------------ min / max ------------------------------ *)

RECURSIVE DensityFunction_min(_, _)
RECURSIVE DensityFunction_max(_, _)

ConstantFunction_min(heap, self) == self.value

ConstantFunction_max(heap, self) == self.value

WrapperFunction_min(heap, self) == DensityFunction_min(heap, self.input)

WrapperFunction_max(heap, self) == DensityFunction_max(heap, self.input)

\* Mutant: the out_range branch left out of the lower bound.
RangeFunction_min_in_range_only(heap, self) ==
    DensityFunction_min(heap, self.in_range)

RangeFunction_min(heap, self) ==
    f64_min(DensityFunction_min(heap, self.in_range),
            DensityFunction_min(heap, self.out_range))

RangeFunction_max(heap, self) ==
    f64_max(DensityFunction_max(heap, self.in_range),
            DensityFunction_max(heap, self.out_range))

BeardifyerFunction_min(heap, self) == 0

BeardifyerFunction_max(heap, self) == 0

YClampedFunction_min(heap, self) == f64_min(self.from_val, self.to_val)

YClampedFunction_max(heap, self) == f64_max(self.from_val, self.to_val)

NoiseFunction_min(heap, self) == -self.noise.max_value

NoiseFunction_max(heap, self) == self.noise.max_value

\* Bounds of a sum and of a product from the bounds of the operands.
BinaryFunction_min(heap, self) ==
    LET d == DensityFunction_min(heap, self.arg1)
        e == DensityFunction_min(heap, self.arg2)
        f == DensityFunction_max(heap, self.arg1)
        g == DensityFunction_max(heap, self.arg2)
    IN  IF self.binary_type = "Add" THEN d + e
        ELSE f64_min(f64_min(f64_mul(d, e), f64_mul(d, g)),
                     f64_min(f64_mul(f, e), f64_mul(f, g)))

BinaryFunction_max(heap, self) ==
    LET d == DensityFunction_min(heap, self.arg1)
        e == DensityFunction_min(heap, self.arg2)
        f == DensityFunction_max(heap, self.arg1)
        g == DensityFunction_max(heap, self.arg2)
    IN  IF self.binary_type = "Add" THEN f + g
        ELSE f64_max(f64_max(f64_mul(d, e), f64_mul(d, g)),
                     f64_max(f64_mul(f, e), f64_mul(f, g)))

LinearFunction_min(heap, self) ==
    f64_min(f64_mul(self.slope, DensityFunction_min(heap, self.input)),
            f64_mul(self.slope, DensityFunction_max(heap, self.input))) + self.offset

LinearFunction_max(heap, self) ==
    f64_max(f64_mul(self.slope, DensityFunction_min(heap, self.input)),
            f64_mul(self.slope, DensityFunction_max(heap, self.input))) + self.offset

DensityFunction_min(heap, f) ==
    LET self == heap[f]
    IN  CASE self.kind = "Constant" -> ConstantFunction_min(heap, self)
          [] self.kind = "Wrapper" -> WrapperFunction_min(heap, self)
          [] self.kind = "Range" -> RangeFunction_min(heap, self)
          [] self.kind = "Beardifyer" -> BeardifyerFunction_min(heap, self)
          [] self.kind = "ClampedY" -> YClampedFunction_min(heap, self)
          [] self.kind = "Noise" -> NoiseFunction_min(heap, self)
          [] self.kind = "Binary" -> BinaryFunction_min(heap, self)
          [] self.kind = "Linear" -> LinearFunction_min(heap, self)

DensityFunction_max(heap, f) ==
    LET self == heap[f]
    IN  CASE self.kind = "Constant" -> ConstantFunction_max(heap, self)
          [] self.kind = "Wrapper" -> WrapperFunction_max(heap, self)
          [] self.kind = "Range" -> RangeFunction_max(heap, self)
          [] self.kind = "Beardifyer" -> BeardifyerFunction_max(heap, self)
          [] self.kind = "ClampedY" -> YClampedFunction_max(heap, self)
          [] self.kind = "Noise" -> NoiseFunction_max(heap, self)
          [] self.kind = "Binary" -> BinaryFunction_max(heap, self)
          [] self.kind = "Linear" -> LinearFunction_max(heap, self)

(* ------------------------------ fill ----------------------------------- *)

\* An applier of length k is the function 0..k-1 -> NoisePos it enumerates;
\* the positions of one applier are distinct.
Appliers ==
    {a \in UNION {[0 .. (k - 1) -> NoisePos] : k \in 1 .. MaxLen} :
        \A i, j \in DOMAIN a : a[i] = a[j] => i = j}

Applier_at(applier, index) == applier[index]

\* ApplierImpl::fill: one sample of `function` per slot.
Applier_fill(heap, densities, applier, function) ==
    [i \in DOMAIN densities |->
        DensityFunction_sample(heap, function, Applier_at(applier, i))]

RECURSIVE DensityFunction_fill(_, _, _, _)

\* densities.fill(value)
slice_fill(densities, value) == [i \in DOMAIN densities |-> value]

ConstantFunction_fill(heap, self, densities, applier) ==
    slice_fill(densities, self.value)

WrapperFunction_fill(heap, self, densities, applier) ==
    DensityFunction_fill(heap, self.input, densities, applier)

\* Mutant: only the in-range slots are overwritten.
RangeFunction_fill_in_range_only(heap, self, densities, applier) ==
    LET filled == DensityFunction_fill(heap, self.input, densities, applier)
    IN  [i \in DOMAIN filled |->
            IF filled[i] >= self.min /\ filled[i] < self.max
            THEN DensityFunction_sample(heap, self.in_range, Applier_at(applier, i))
            ELSE filled[i]]

RangeFunction_fill(heap, self, densities, applier) ==
    LET filled == DensityFunction_fill(heap, self.input, densities, applier)
    IN  [i \in DOMAIN filled |->
            IF filled[i] >= self.min /\ filled[i] < self.max
            THEN DensityFunction_sample(heap, self.in_range, Applier_at(applier, i))
            ELSE DensityFunction_sample(heap, self.out_range, Applier_at(applier, i))]

BeardifyerFunction_fill(heap, self, densities, applier) ==
    slice_fill(densities, 0)

\* f is the handle of self: applier.fill gets a clone of the node.
YClampedFunction_fill(heap, f, densities, applier) ==
    Applier_fill(heap, densities, applier, f)

DensityFunction_fill(heap, f, densities, applier) ==
    LET self == heap[f]
    IN  CASE self.kind = "Constant" -> ConstantFunction_fill(heap, self, densities, applier)
          [] self.kind = "Wrapper" -> WrapperFunction_fill(heap, self, densities, applier)
          [] self.kind = "Range" -> RangeFunction_fill(heap, self, densities, applier)
          [] self.kind = "Beardifyer" -> BeardifyerFunction_fill(heap, self, densities, applier)
          [] self.kind = "ClampedY" -> YClampedFunction_fill(heap, f, densities, applier)

(* ------------------------------ apply ---------------------------------- *)

\* A traversal threads st = [heap, calls]: the heap and the log of the
\* visitor.apply calls made so far, each with the handle it was given and the
\* handle it returned.  Every *_apply returns st extended with `result`.

\* wrapper.wrapped() for a Wrapper, function.clone() otherwise.
UnwrapVisitor_apply(heap, function) ==
    IF heap[function].kind = "Wrapper" THEN heap[function].input ELSE function

\* visitor.apply(Arc::new(node))
Visitor_apply(st, node) ==
    LET heap == Arc_new(st.heap, node)
        function == Len(heap)
        result == UnwrapVisitor_apply(heap, function)
    IN  [heap |-> heap,
         calls |-> Append(st.calls, [function |-> function, result |-> result]),
         result |-> result]

RECURSIVE DensityFunction_apply(_, _)

ConstantFunction_apply(st, f) == Visitor_apply(st, st.heap[f])

BeardifyerFunction_apply(st, f) == Visitor_apply(st, BeardifyerFunction_new)

YClampedFunction_apply(st, f) == Visitor_apply(st, st.heap[f])

\* Mutant: the Wrapper is handed to the visitor with its input as it was.
WrapperFunction_apply_no_recursion(st, f) == Visitor_apply(st, st.heap[f])

\* Mutant: the rewritten input is stored into the Wrapper that exists.
WrapperFunction_apply_in_place(st, f) ==
    LET input == DensityFunction_apply(st, st.heap[f].input)
        heap == [input.heap EXCEPT ![f].input = input.result]
        result == UnwrapVisitor_apply(heap, f)
    IN  [heap |-> heap,
         calls |-> Append(input.calls, [function |-> f, result |-> result]),
         result |-> result]

WrapperFunction_apply(st, f) ==
    LET self == st.heap[f]
        input == DensityFunction_apply(st, self.input)
    IN  Visitor_apply(input, WrapperFunction_new(input.result, self.wrapper))

\* Mutant: the out_range child is cloned, not rewritten.
RangeFunction_apply_skip_out_range(st, f) ==
    LET self == st.heap[f]
        input == DensityFunction_apply(st, self.input)
        in_range == DensityFunction_apply(input, self.in_range)
    IN  Visitor_apply(in_range,
            RangeFunction_new(input.result, self.min, self.max,
                              in_range.result, self.out_range))

\* Mutant: the visitor is called on the Range before its children are
\* rewritten.
RangeFunction_apply_visit_first(st, f) ==
    LET self == st.heap[f]
        visited == Visitor_apply(st, self)
        input == DensityFunction_apply(visited, self.input)
        in_range == DensityFunction_apply(input, self.in_range)
        out_range == DensityFunction_apply(in_range, self.out_range)
        heap == Arc_new(out_range.heap,
                    RangeFunction_new(input.result, self.min, self.max,
                                      in_range.result, out_range.result))
    IN  [heap |-> heap, calls |-> out_range.calls, result |-> Len(heap)]

RangeFunction_apply(st, f) ==
    LET self == st.heap[f]
        input == DensityFunction_apply(st, self.input)
        in_range == DensityFunction_apply(input, self.in_range)
        out_range == DensityFunction_apply(in_range, self.out_range)
    IN  Visitor_apply(out_range,
            RangeFunction_new(input.result, self.min, self.max,
                              in_range.result, out_range.result))

DensityFunction_apply(st, f) ==
    LET kind == st.heap[f].kind
    IN  CASE kind = "Constant" -> ConstantFunction_apply(st, f)
          [] kind = "Wrapper" -> WrapperFunction_apply(st, f)
          [] kind = "Range" -> RangeFunction_apply(st, f)
          [] kind = "Beardifyer" -> BeardifyerFunction_apply(st, f)
          [] kind = "ClampedY" -> YClampedFunction_apply(st, f)

(* ------------------------------ graph helpers -------------------------- *)

\* The child handles of a node, in field order.
Children(node) ==
    CASE node.kind = "Wrapper" -> <<node.input>>
      [] node.kind = "Range" -> <<node.input, node.in_range, node.out_range>>
      [] node.kind = "Binary" -> <<node.arg1, node.arg2>>
      [] node.kind = "Linear" -> <<node.input>>
      [] node.kind = "Unary" -> <<node.input>>
      [] node.kind = "Clamp" -> <<node.input>>
      [] node.kind = "ShiftedNoise" -> <<node.shift_x, node.shift_y, node.shift_z>>
      [] node.kind = "Spline" -> node.coordinates
      [] OTHER -> << >>

Elements(seq) == {seq[i] : i \in DOMAIN seq}

RECURSIVE Reachable(_, _)
\* The handles reachable from f, f included.
Reachable(heap, f) ==
    {f} \cup UNION {Reachable(heap, c) : c \in Elements(Children(heap[f]))}

RECURSIVE Structure(_, _)
\* The node behind f with every child handle replaced by the child's own
\* structure: equality of structures is equality modulo handle identity.
Structure(heap, f) ==
    LET node == heap[f]
    IN  CASE node.kind = "Wrapper" ->
                [node EXCEPT !.input = Structure(heap, node.input)]
          [] node.kind = "Range" ->
                [node EXCEPT !.input = Structure(heap, node.input),
                             !.in_range = Structure(heap, node.in_range),
                             !.out_range = Structure(heap, node.out_range)]
          [] OTHER -> node

(* ------------------------------ expression builder -------------------- *)

\* The builder methods take the receiver node `self` by value and the other
\* operand by handle, and thread the heap: each returns [heap, node], the
\* DensityFunction it built and the heap with the Arcs it allocated.

\* math::BinaryFunction::create, constants folded eagerly.
BinaryFunction_create(heap, binary_type, arg1, arg2) ==
    LET x == heap[arg1]
        y == heap[arg2]
    IN  IF y.kind # "Constant" THEN BinaryFunction_new(binary_type, arg1, arg2)
        ELSE IF binary_type = "Add"
        THEN IF y.value = 0 THEN x
             ELSE IF x.kind = "Linear"
             THEN LinearFunction_new(x.slope, x.offset + y.value, x.input)
             ELSE BinaryFunction_new(binary_type, arg1, arg2)
        ELSE IF y.value = One THEN x
             ELSE IF y.value = 0 THEN ConstantFunction_new(0)
             ELSE IF x.kind = "Linear"
             THEN LinearFunction_new(f64_mul(x.slope, y.value),
                                     f64_mul(x.offset, y.value), x.input)
             ELSE BinaryFunction_new(binary_type, arg1, arg2)

DensityFunction_add(heap, self, other) ==
    LET h == Arc_new(heap, self)
    IN  [heap |-> h, node |-> BinaryFunction_create(h, "Add", Len(h), other)]

DensityFunction_mul(heap, self, other) ==
    LET h == Arc_new(heap, self)
    IN  [heap |-> h, node |-> BinaryFunction_create(h, "Mul", Len(h), other)]

DensityFunction_add_const(heap, self, val) ==
    LET h == Arc_new(heap, ConstantFunction_new(val))
    IN  DensityFunction_add(h, self, Len(h))

DensityFunction_mul_const(heap, self, val) ==
    LET h == Arc_new(heap, ConstantFunction_new(val))
    IN  DensityFunction_mul(h, self, Len(h))

\* pub fn clamp(&self, max: f64, min: f64): the first parameter is named max,
\* the second min.
DensityFunction_clamp(heap, self, max, min) ==
    LET h == Arc_new(heap, self)
    IN  [heap |-> h, node |-> ClampFunction_new(Len(h), min, max)]

\* Mutant: abs() building a HalfNeg node.
DensityFunction_abs_half(heap, self) ==
    LET h == Arc_new(heap, self)
    IN  [heap |-> h, node |-> UnaryFunction_create("HalfNeg", Len(h))]

DensityFunction_abs(heap, self) ==
    LET h == Arc_new(heap, self)
    IN  [heap |-> h, node |-> UnaryFunction_create("Abs", Len(h))]

DensityFunction_half_negative(heap, self) ==
    LET h == Arc_new(heap, self)
    IN  [heap |-> h, node |-> UnaryFunction_create("HalfNeg", Len(h))]

\* Mutant: quarter_negative() building a HalfNeg node.
DensityFunction_quarter_negative_half(heap, self) ==
    LET h == Arc_new(heap, self)
    IN  [heap |-> h, node |-> UnaryFunction_create("HalfNeg", Len(h))]

DensityFunction_quarter_negative(heap, self) ==
    LET h == Arc_new(heap, self)
    IN  [heap |-> h, node |-> UnaryFunction_create("QuartNeg", Len(h))]

\* Mutant: start added to end, not subtracted from it.
lerp_density_static_start_sign(heap, delta, start, end) ==
    With(DensityFunction_add_const(heap, heap[end], start), LAMBDA diff :
    With(Arc_new(diff.heap, diff.node), LAMBDA h :
    With(DensityFunction_mul(h, h[delta], Len(h)), LAMBDA scaled :
    DensityFunction_add_const(scaled.heap, scaled.node, start))))

\* delta * (end - start) + start, start a number.
lerp_density_static_start(heap, delta, start, end) ==
    With(DensityFunction_add_const(heap, heap[end], -start), LAMBDA diff :
    With(Arc_new(diff.heap, diff.node), LAMBDA h :
    With(DensityFunction_mul(h, h[delta], Len(h)), LAMBDA scaled :
    DensityFunction_add_const(scaled.heap, scaled.node, start))))

\* Mutant: start and end exchanged where start is no Constant.
lerp_density_exchanged(heap, delta, start, end) ==
    IF heap[start].kind = "Constant"
    THEN lerp_density_static_start(heap, delta, heap[start].value, end)
    ELSE With(Arc_new(heap, WrapperFunction_new(delta, "CacheOnce")), LAMBDA h1 :
         With(Len(h1), LAMBDA function :
         With(DensityFunction_mul_const(h1, h1[function], -One), LAMBDA negated :
         With(DensityFunction_add_const(negated.heap, negated.node, One), LAMBDA one_minus :
         With(Arc_new(one_minus.heap, one_minus.node), LAMBDA h2 :
         With(Len(h2), LAMBDA function2 :
         With(DensityFunction_mul(h2, h2[end], function2), LAMBDA left :
         With(DensityFunction_mul(left.heap, left.heap[start], function), LAMBDA right :
         With(Arc_new(right.heap, right.node), LAMBDA h3 :
         DensityFunction_add(h3, left.node, Len(h3)))))))))))

\* start * (1 - delta) + end * delta, delta behind a CacheOnce Wrapper, unless
\* start is a Constant.
lerp_density(heap, delta, start, end) ==
    IF heap[start].kind = "Constant"
    THEN lerp_density_static_start(heap, delta, heap[start].value, end)
    ELSE With(Arc_new(heap, WrapperFunction_new(delta, "CacheOnce")), LAMBDA h1 :
         With(Len(h1), LAMBDA function :
         With(DensityFunction_mul_const(h1, h1[function], -One), LAMBDA negated :
         With(DensityFunction_add_const(negated.heap, negated.node, One), LAMBDA one_minus :
         With(Arc_new(one_minus.heap, one_minus.node), LAMBDA h2 :
         With(Len(h2), LAMBDA function2 :
         With(DensityFunction_mul(h2, h2[start], function2), LAMBDA left :
         With(DensityFunction_mul(left.heap, left.heap[end], function), LAMBDA right :
         With(Arc_new(right.heap, right.node), LAMBDA h3 :
         DensityFunction_add(h3, left.node, Len(h3)))))))))))

(* ------------------------------ built-in functions --------------------- *)

f64_abs(a) == IF a < 0 THEN -a ELSE a

\* Mutant: the outer abs() left out.
peaks_valleys_noise_one_fold(variance) ==
    f64_mul(-((f64_abs(variance) - (2 * One) \div 3) - One \div 3), 3 * One)

\* 0.6666667f32 and 0.33333334f32 are (2 * One) / 3 and One / 3.
peaks_valleys_noise(variance) ==
    f64_mul(-(f64_abs(f64_abs(variance) - (2 * One) \div 3) - One \div 3), 3 * One)

\* Mutant: the half-width taken from the sum of the limits.
map_range_sum(heap, function, min, max) ==
    LET d == f64_mul(min + max, One \div 2)
        e == f64_mul(max + min, One \div 2)
        scaled == DensityFunction_mul(heap, ConstantFunction_new(e), function)
        h == Arc_new(scaled.heap, scaled.node)
    IN  DensityFunction_add(h, ConstantFunction_new(d), Len(h))

\* Constant((min + max) * 0.5) + Constant((max - min) * 0.5) * function
map_range(heap, function, min, max) ==
    LET d == f64_mul(min + max, One \div 2)
        e == f64_mul(max - min, One \div 2)
        scaled == DensityFunction_mul(heap, ConstantFunction_new(e), function)
        h == Arc_new(scaled.heap, scaled.node)
    IN  DensityFunction_add(h, ConstantFunction_new(d), Len(h))

noise_in_range(heap, noise, xz_scale, y_scale, min, max) ==
    LET h == Arc_new(heap, NoiseFunction_new(noise, xz_scale, y_scale))
    IN  map_range(h, Len(h), min, max)

\* Mutant: the upper limit max taken as it is, without the + 1.
veritcal_range_choice_exclusive(heap, input, in_range, min, max, out) ==
    LET h1 == Arc_new(heap, ConstantFunction_new(out * One))
        h2 == Arc_new(h1, RangeFunction_new(input, min * One, max * One,
                                            in_range, Len(h1)))
    IN  [heap |-> h2, node |-> WrapperFunction_new(Len(h2), "Interpolated")]

\* min, max and out are i32 and are cast to f64.
veritcal_range_choice(heap, input, in_range, min, max, out) ==
    LET h1 == Arc_new(heap, ConstantFunction_new(out * One))
        h2 == Arc_new(h1, RangeFunction_new(input, min * One, (max + 1) * One,
                                            in_range, Len(h1)))
    IN  [heap |-> h2, node |-> WrapperFunction_new(Len(h2), "Interpolated")]

\* Mutant: blend and function exchanged in the call of lerp_density.
apply_blending_exchanged(heap, function, blend) ==
    With(Arc_new(heap, BlendAlphaFunction_new), LAMBDA h1 :
    With(lerp_density(h1, Len(h1), function, blend), LAMBDA lerp :
    With(Arc_new(lerp.heap, lerp.node), LAMBDA h2 :
    With(Arc_new(h2, WrapperFunction_new(Len(h2), "Cache2D")), LAMBDA h3 :
    [heap |-> h3, node |-> WrapperFunction_new(Len(h3), "CacheFlat")]))))

\* CacheFlat(Cache2D(lerp_density(BlendAlpha, blend, function)))
apply_blending(heap, function, blend) ==
    With(Arc_new(heap, BlendAlphaFunction_new), LAMBDA h1 :
    With(lerp_density(h1, Len(h1), blend, function), LAMBDA lerp :
    With(Arc_new(lerp.heap, lerp.node), LAMBDA h2 :
    With(Arc_new(h2, WrapperFunction_new(Len(h2), "Cache2D")), LAMBDA h3 :
    [heap |-> h3, node |-> WrapperFunction_new(Len(h3), "CacheFlat")]))))

\* -0.50375f32 as f64
OffsetShift == -((50375 * One) \div 100000)

\* `splines` stands for terrain_params: the tables of create_offset_spline,
\* create_factor_spline and create_jaggedness_spline.  The result is the
\* SlopedCheeseResult and the heap.
sloped_cheese_function(heap, jagged_noise, continents, erosion, ridges, ridges_folded, blend_offset, ten, zero, base_3d_noise_overworld, amplified, splines) ==
    With(DensityFunction_add_const(heap,
             SplineFunction_new("offset", <<continents, erosion, ridges>>,
                                amplified, splines.offset),
             OffsetShift), LAMBDA shifted :
    With(Arc_new(shifted.heap, shifted.node), LAMBDA h1 :
    With(apply_blending(h1, Len(h1), blend_offset), LAMBDA blended1 :
    With(Arc_new(blended1.heap, blended1.node), LAMBDA h2 :
    With(Len(h2), LAMBDA offset :
    With(Arc_new(h2, SplineFunction_new("factor",
                         <<continents, erosion, ridges, ridges_folded>>,
                         amplified, splines.factor)), LAMBDA h3 :
    With(apply_blending(h3, Len(h3), ten), LAMBDA blended2 :
    With(Arc_new(blended2.heap, blended2.node), LAMBDA h4 :
    With(Len(h4), LAMBDA factor :
    With(DensityFunction_add(h4,
             YClampedFunction_new(-64, 320, (1564 * One) \div 1000,
                                  -((3 * One) \div 2)),
             offset), LAMBDA sum1 :
    With(Arc_new(sum1.heap, sum1.node), LAMBDA h5 :
    With(Len(h5), LAMBDA depth :
    With(Arc_new(h5, SplineFunction_new("jaggedness",
                         <<continents, erosion, ridges, ridges_folded>>,
                         amplified, splines.jaggedness)), LAMBDA h6 :
    With(apply_blending(h6, Len(h6), zero), LAMBDA blended3 :
    With(Arc_new(blended3.heap, blended3.node), LAMBDA h7 :
    With(Len(h7), LAMBDA jaggedness :
    With(DensityFunction_half_negative(h7, h7[jagged_noise]), LAMBDA halved :
    With(Arc_new(halved.heap, halved.node), LAMBDA h8 :
    With(DensityFunction_mul(h8, h8[jaggedness], Len(h8)), LAMBDA product1 :
    With(Arc_new(product1.heap, product1.node), LAMBDA h9 :
    With(Len(h9), LAMBDA density1 :
    With(DensityFunction_add(h9, h9[depth], density1), LAMBDA sum2 :
    With(DensityFunction_mul(sum2.heap, sum2.node, factor), LAMBDA product2 :
    With(DensityFunction_quarter_negative(product2.heap, product2.node), LAMBDA quartered :
    With(Arc_new(quartered.heap, quartered.node), LAMBDA h10 :
    With(DensityFunction_mul(h10, ConstantFunction_new(4 * One), Len(h10)), LAMBDA density2 :
    With(DensityFunction_add(density2.heap, density2.node,
                             base_3d_noise_overworld), LAMBDA sum3 :
    With(Arc_new(sum3.heap, sum3.node), LAMBDA h11 :
    [heap |-> h11, offset |-> offset, factor |-> factor, depth |-> depth,
     jaggedness |-> jaggedness, sloped_cheese |-> Len(h11)]
    ))))))))))))))))))))))))))))

\* Arc::new(Wrapper(Arc::new(ShiftedNoise(shift_x, zero, shift_z, 0.25, 0,
\* noise)), CacheFlat)): the heap, whose last handle is the root.
CacheFlatShiftedNoise(heap, shift_x, zero, shift_z, noise) ==
    With(Arc_new(heap, ShiftedNoiseFunction_new(shift_x, zero, shift_z,
                                                One \div 4, 0, noise)), LAMBDA h :
    Arc_new(h, WrapperFunction_new(Len(h), "CacheFlat")))

\* Arc::new(Wrapper(function, wrapper)) on the root of heap: the heap, whose
\* last handle is the new root.
Wrapped(heap, wrapper) == Arc_new(heap, WrapperFunction_new(Len(heap), wrapper))

\* ridges_overworld.abs().add_const(-2/3).abs().add_const(-1/3).mul_const(-3)
RidgesFolded(heap, ridges_overworld) ==
    With(DensityFunction_abs(heap, heap[ridges_overworld]), LAMBDA abs1 :
    With(DensityFunction_add_const(abs1.heap, abs1.node, -((2 * One) \div 3)), LAMBDA sum1 :
    With(DensityFunction_abs(sum1.heap, sum1.node), LAMBDA abs2 :
    With(DensityFunction_add_const(abs2.heap, abs2.node, -(One \div 3)), LAMBDA sum2 :
    DensityFunction_mul_const(sum2.heap, sum2.node, -3 * One)))))

\* BuiltInNoiseFunctions::new is written in four parts (the shared functions,
\* then one part per sloped-cheese bundle).  `params` is the registry: its
\* noise parameters, the sampler of the base 3d noise and the terrain splines.
\* Each part gives the heap and the roots bound so far.
BuiltInNoiseFunctions_new_shared(params) ==
    With(Arc_new(<< >>, BlendAlphaFunction_new), LAMBDA h1 :
    With(Len(h1), LAMBDA blend_alpha :
    With(Arc_new(h1, BlendOffsetFunction_new), LAMBDA h2 :
    With(Len(h2), LAMBDA blend_offset :
    With(Arc_new(h2, ConstantFunction_new(0)), LAMBDA h3 :
    With(Len(h3), LAMBDA zero :
    With(Arc_new(h3, ConstantFunction_new(10 * One)), LAMBDA h4 :
    With(Len(h4), LAMBDA ten :
    With(Arc_new(h4, YClampedFunction_new(MIN_HEIGHT * 2, MAX_COLUMN_HEIGHT * 2,
                         MIN_HEIGHT * 2 * One, MAX_COLUMN_HEIGHT * 2 * One)), LAMBDA h5 :
    With(Len(h5), LAMBDA y :
    With(Wrapped(Wrapped(Arc_new(h5, ShiftAFunction_new(params.offset)),
                         "Cache2D"), "CacheFlat"), LAMBDA h6 :
    With(Len(h6), LAMBDA shift_x :
    With(Wrapped(Wrapped(Arc_new(h6, ShiftBFunction_new(params.offset)),
                         "Cache2D"), "CacheFlat"), LAMBDA h7 :
    With(Len(h7), LAMBDA shift_z :
    With(Arc_new(h7, InterpolatedNoiseSampler_new(One \div 4, One \div 8,
                         80 * One, 160 * One, 8 * One, params.base_3d)), LAMBDA h8 :
    With(Len(h8), LAMBDA base_3d_noise_overworld :
    With(Arc_new(h8, InterpolatedNoiseSampler_new(One \div 4, (3 * One) \div 8,
                         80 * One, 60 * One, 8 * One, params.base_3d)), LAMBDA h9 :
    With(Len(h9), LAMBDA base_3d_noise_nether :
    With(Arc_new(h9, InterpolatedNoiseSampler_new(One \div 4, One \div 4,
                         80 * One, 160 * One, 4 * One, params.base_3d)), LAMBDA h10 :
    With(Len(h10), LAMBDA base_3d_noise_end :
    With(CacheFlatShiftedNoise(h10, shift_x, zero, shift_z,
                               params.continentalness), LAMBDA h11 :
    With(Len(h11), LAMBDA continents_overworld :
    With(CacheFlatShiftedNoise(h11, shift_x, zero, shift_z, params.erosion), LAMBDA h12 :
    With(Len(h12), LAMBDA erosion_overworld :
    With(CacheFlatShiftedNoise(h12, shift_x, zero, shift_z, params.ridge), LAMBDA h13 :
    With(Len(h13), LAMBDA ridges_overworld :
    With(RidgesFolded(h13, ridges_overworld), LAMBDA folded :
    With(Arc_new(folded.heap, folded.node), LAMBDA h14 :
    [heap |-> h14,
     functions |->
       [zero |-> zero, ten |-> ten, blend_alpha |-> blend_alpha,
        blend_offset |-> blend_offset, y |-> y, shift_x |-> shift_x,
        shift_z |-> shift_z,
        base_3d_noise_overworld |-> base_3d_noise_overworld,
        base_3d_noise_nether |-> base_3d_noise_nether,
        base_3d_noise_end |-> base_3d_noise_end,
        continents_overworld |-> continents_overworld,
        erosion_overworld |-> erosion_overworld,
        ridges_overworld |-> ridges_overworld,
        ridges_folded_overworld |-> Len(h14)]]
    ))))))))))))))))))))))))))))

\* One call of sloped_cheese_function from BuiltInNoiseFunctions::new, with the
\* jagged noise it allocates first, on the roots `f` bound so far.
BuiltInNoiseFunctions_new_bundle(heap, f, params, continents, erosion, amplified) ==
    With(Arc_new(heap, NoiseFunction_new(params.jagged, 1500 * One, 0)), LAMBDA h :
    sloped_cheese_function(h, Len(h), continents, erosion,
        f.ridges_overworld, f.ridges_folded_overworld, f.blend_offset,
        f.ten, f.zero, f.base_3d_noise_overworld, amplified, params.splines))

BuiltInNoiseFunctions_new_overworld(heap, f, params) ==
    With(BuiltInNoiseFunctions_new_bundle(heap, f, params, f.continents_overworld,
                                          f.erosion_overworld, FALSE), LAMBDA bundle :
    [heap |-> bundle.heap,
     functions |->
       [offset_overworld |-> bundle.offset,
        factor_overworld |-> bundle.factor,
        jaggedness_overworld |-> bundle.jaggedness,
        depth_overworld |-> bundle.depth,
        sloped_cheese_overworld |-> bundle.sloped_cheese] @@ f])

BuiltInNoiseFunctions_new_large_biome(heap, f, params) ==
    With(CacheFlatShiftedNoise(heap, f.shift_x, f.zero, f.shift_z,
                               params.continentalness_large), LAMBDA h1 :
    With(Len(h1), LAMBDA continents_overworld_large_biome :
    With(CacheFlatShiftedNoise(h1, f.shift_x, f.zero, f.shift_z,
                               params.erosion_large), LAMBDA h2 :
    With(Len(h2), LAMBDA erosion_overworld_large_biome :
    With(BuiltInNoiseFunctions_new_bundle(h2, f, params,
             continents_overworld_large_biome,
             erosion_overworld_large_biome, FALSE), LAMBDA bundle :
    [heap |-> bundle.heap,
     functions |->
       [continents_overworld_large_biome |-> continents_overworld_large_biome,
        erosion_overworld_large_biome |-> erosion_overworld_large_biome,
        offset_overworld_large_biome |-> bundle.offset,
        factor_overworld_large_biome |-> bundle.factor,
        jaggedness_overworld_large_biome |-> bundle.jaggedness,
        depth_overworld_large_biome |-> bundle.depth,
        sloped_cheese_overworld_large_biome |-> bundle.sloped_cheese] @@ f])))))

BuiltInNoiseFunctions_new_amplified(heap, f, params) ==
    With(BuiltInNoiseFunctions_new_bundle(heap, f, params, f.continents_overworld,
                                          f.erosion_overworld, TRUE), LAMBDA bundle :
    [heap |-> bundle.heap,
     functions |->
       [offset_overworld_amplified |-> bundle.offset,
        factor_overworld_amplified |-> bundle.factor,
        jaggedness_overworld_amplified |-> bundle.jaggedness,
        depth_overworld_amplified |-> bundle.depth,
        sloped_cheese_overworld_amplified |-> bundle.sloped_cheese] @@ f])

\* BuiltInNoiseFunctions::new through the three sloped-cheese bundles: the
\* heap and the struct of roots.
BuiltInNoiseFunctions_new(params) ==
    With(BuiltInNoiseFunctions_new_shared(params), LAMBDA shared :
    With(BuiltInNoiseFunctions_new_overworld(shared.heap, shared.functions,
                                             params), LAMBDA overworld :
    With(BuiltInNoiseFunctions_new_large_biome(overworld.heap, overworld.functions,
                                               params), LAMBDA large_biome :
    BuiltInNoiseFunctions_new_amplified(large_biome.heap, large_biome.functions,
                                        params))))

(* ------------------------------ actions -------------------------------- *)

Handles == DOMAIN nodes

\* Arc::new(node) by the graph builder.
Build(node) ==
    /\ nodes' = Arc_new(nodes, node)
    /\ ret' = [op |-> "new", result |-> Len(nodes) + 1]

NewConstant ==
    /\ Len(nodes) < MaxNodes
    /\ \E v \in Values : Build(ConstantFunction_new(v))

NewBeardifyer ==
    /\ Len(nodes) < MaxNodes
    /\ Build(BeardifyerFunction_new)

NewClampedY ==
    /\ Len(nodes) < MaxNodes
    /\ \E p \in YClampedParams : Build(YClampedFunction_new(p[1], p[2], p[3], p[4]))

NewWrapper ==
    /\ Len(nodes) < MaxNodes
    /\ \E input \in Handles, wrapper \in WrapperType :
        Build(WrapperFunction_new(input, wrapper))

NewRange ==
    /\ Len(nodes) < MaxNodes
    /\ \E input, in_range, out_range \in Handles, b \in RangeBounds :
        Build(RangeFunction_new(input, b[1], b[2], in_range, out_range))

\* The last call returned a handle: the caller evaluates or rewrites the
\* function it was handed.
Returned == ret.op \in {"new", "apply"}

Sample ==
    /\ Returned
    /\ \E pos \in NoisePos :
        ret' = [op |-> "sample", function |-> ret.result, pos |-> pos,
                value |-> DensityFunction_sample(nodes, ret.result, pos)]
    /\ UNCHANGED nodes

Fill ==
    /\ Returned
    /\ \E applier \in Appliers :
        ret' = [op |-> "fill", function |-> ret.result, applier |-> applier,
                densities |-> DensityFunction_fill(nodes, ret.result,
                                 [i \in DOMAIN applier |-> 7], applier)]
    /\ UNCHANGED nodes

\* function.apply(&Visitor::Unwrap(UnwrapVisitor {})).  `base` is the heap size
\* at the call; `round` counts the successive rewrites of the graph `root`.
Apply ==
    /\ Returned
    /\ ret.op = "apply" => ret.round < MaxApply
    /\ LET done == DensityFunction_apply([heap |-> nodes, calls |-> << >>], ret.result)
       IN  /\ nodes' = done.heap
           /\ ret' = [op |-> "apply", function |-> ret.result, base |-> Len(nodes),
                      round |-> IF ret.op = "apply" THEN ret.round + 1 ELSE 1,
                      root |-> IF ret.op = "apply" THEN ret.root ELSE ret.result,
                      calls |-> done.calls, result |-> done.result]

\* Arc::new(lerp_density(delta, start, end)) on the function just built, as
\* apply_blending calls it.
LerpDensity ==
    /\ ret.op = "new"
    /\ \E delta, start \in Handles :
         LET end == ret.result
             done == lerp_density(nodes, delta, start, end)
             heap == Arc_new(done.heap, done.node)
         IN  /\ nodes' = heap
             /\ ret' = [op |-> "lerp_density", delta |-> delta, start |-> start,
                        end |-> end, base |-> Len(nodes), result |-> Len(heap)]

NewBuiltInClampedY ==
    /\ Len(nodes) < MaxNodes
    /\ \E p \in BuiltInYClamped : Build(YClampedFunction_new(p[1], p[2], p[3], p[4]))

\* function.sample(&NoisePos::Unblended(UnblendedNoisePos::new(x, y, z))) on
\* the function just built, anywhere in a column.
SampleColumn ==
    /\ ret.op = "new"
    /\ \E pos \in ColumnPos :
        ret' = [op |-> "sample", function |-> ret.result, pos |-> pos,
                value |-> DensityFunction_sample(nodes, ret.result, pos)]
    /\ UNCHANGED nodes

\* DoublePerlinNoiseParameters of the registry: the bound max_value() and the
\* values the seeded sampler takes.
NoiseParams ==
    {[max_value |-> One, table |-> <<-One, 0, One>>],
     [max_value |-> One, table |-> <<One, -One>>],
     [max_value |-> 2 * One, table |-> <<2 * One, 0, -One>>]}

\* (xz_scale, y_scale) of the Noise nodes built.
NoiseScales == {<<One, One>>, <<2 * One, One>>, <<One, 0>>}

\* (min, max) noise_in_range is called with: (-0.1, 0.1), and the builder's
\* (0, -0.1), (-0.6, -1.3), (-8, 8), (0, -2) and (0, 1.1).
NoiseRanges ==
    {<<-(One \div 10), One \div 10>>, <<0, -(One \div 10)>>,
     <<-((6 * One) \div 10), -((13 * One) \div 10)>>, <<-8 * One, 8 * One>>,
     <<0, -2 * One>>, <<0, (11 * One) \div 10>>}

\* Arc::new(noise_in_range(param, xz_scale, y_scale, min, max))
NoiseInRange ==
    /\ Len(nodes) < MaxNodes
    /\ ret.op \in {"init", "new"}
    /\ \E noise \in NoiseParams, scale \in NoiseScales, range \in NoiseRanges :
         LET done == noise_in_range(nodes, noise, scale[1], scale[2],
                                    range[1], range[2])
             heap == Arc_new(done.heap, done.node)
         IN  /\ nodes' = heap
             /\ ret' = [op |-> "noise_in_range", noise |-> noise,
                        xz_scale |-> scale[1], y_scale |-> scale[2],
                        min |-> range[1], max |-> range[2], result |-> Len(heap)]

\* (min, max, out) veritcal_range_choice is called with: the builder's
\* (-60, 320, -1) and (-60, 320, 0), and a range of two values.
RangeChoices == {<<-60, 320, -1>>, <<-60, 320, 0>>, <<0, 1, 2>>}

\* Arc::new(veritcal_range_choice(input, in_range, min, max, out))
VerticalRangeChoice ==
    /\ ret.op = "new"
    /\ \E input, in_range \in Handles, choice \in RangeChoices :
         LET done == veritcal_range_choice(nodes, input, in_range,
                                           choice[1], choice[2], choice[3])
             heap == Arc_new(done.heap, done.node)
         IN  /\ nodes' = heap
             /\ ret' = [op |-> "veritcal_range_choice", input |-> input,
                        in_range |-> in_range, min |-> choice[1],
                        max |-> choice[2], out |-> choice[3],
                        result |-> Len(heap)]

\* (lo, hi) of the calls x.clamp(lo, hi): the builder's (-1, 1), and others.
ClampBounds == {<<-One, One>>, <<0, 2 * One>>, <<One, One>>}

\* x.clamp(lo, hi) on the function just built: the arguments in call order.
Clamp ==
    /\ ret.op = "new"
    /\ \E bounds \in ClampBounds :
         LET done == DensityFunction_clamp(nodes, nodes[ret.result],
                                           bounds[1], bounds[2])
             heap == Arc_new(done.heap, done.node)
         IN  /\ nodes' = heap
             /\ ret' = [op |-> "clamp", self |-> ret.result, lo |-> bounds[1],
                        hi |-> bounds[2], result |-> Len(heap)]

\* The blend nodes of BuiltInNoiseFunctions::new: zero, ten and blend_offset.
BlendNodes ==
    {ConstantFunction_new(0), ConstantFunction_new(10 * One), BlendOffsetFunction_new}

NewBlend ==
    /\ Len(nodes) < MaxNodes
    /\ \E node \in BlendNodes : Build(node)

\* Arc::new(apply_blending(function, blend)) on the function just built, as
\* sloped_cheese_function calls it.
ApplyBlending ==
    /\ ret.op = "new"
    /\ \E blend \in Handles :
         LET function == ret.result
             done == apply_blending(nodes, function, blend)
             heap == Arc_new(done.heap, done.node)
         IN  /\ nodes' = heap
             /\ ret' = [op |-> "apply_blending", function |-> function,
                        blend |-> blend, result |-> Len(heap)]

\* The ridge noise parameter: samplers that take values between -1 and 1 on
\* both sides of the folds at 1/3 and 2/3.
RidgeParams ==
    {[max_value |-> One, table |-> <<-One, One \div 3>>],
     [max_value |-> One, table |-> <<-(One \div 2), (2 * One) \div 3>>],
     [max_value |-> One, table |-> <<0, One>>],
     [max_value |-> One, table |-> <<-((2 * One) \div 3), One \div 2>>]}

\* Tables of the terrain splines (offset, factor, jaggedness).
SplineTables ==
    [offset : {<<-One, 0, One>>, <<One \div 2, 2 * One>>},
     factor : {<<One, 2 * One>>, <<-One, One \div 2, 0>>},
     jaggedness : {<<0, One>>, <<-One, One \div 2>>}]

\* The registries BuiltInNoiseFunctions::new is called with.
BuiltInNoiseParams ==
    [offset : {[max_value |-> One, table |-> <<One, 0, -One>>]},
     continentalness : {[max_value |-> One, table |-> <<-One, 0, One>>]},
     erosion : {[max_value |-> One, table |-> <<0, One>>]},
     continentalness_large : {[max_value |-> One, table |-> <<One, -One>>]},
     erosion_large : {[max_value |-> One, table |-> <<0, -One, One>>]},
     ridge : RidgeParams,
     jagged : NoiseParams,
     base_3d : {[max_value |-> One, table |-> <<-One, One, 0>>],
                [max_value |-> 2 * One, table |-> <<2 * One, -One>>]},
     splines : SplineTables]

BuiltInNoiseFunctionsNew ==
    /\ ret.op = "init"
    /\ nodes = << >>
    /\ \E params \in BuiltInNoiseParams :
         LET done == BuiltInNoiseFunctions_new(params)
         IN  /\ nodes' = done.heap
             /\ ret' = [op |-> "built_in", params |-> params,
                        functions |-> done.functions]

\* A getter of BuiltInNoiseFunctions and sample() at a position of a column.
SampleBuiltIn ==
    /\ ret.op = "built_in"
    /\ \E name \in DOMAIN ret.functions, pos \in ColumnPos :
        ret' = [op |-> "sample_built_in", params |-> ret.params,
                functions |-> ret.functions, name |-> name, pos |-> pos,
                value |-> DensityFunction_sample(nodes, ret.functions[name], pos)]
    /\ UNCHANGED nodes

\* The weirdness values peaks_valleys_noise is called with: -1, -2/3, -1/2,
\* -1/3, 0, 1/3, 1/2, 2/3, 1 and 2.
Variances ==
    {-One, -((2 * One) \div 3), -(One \div 2), -(One \div 3), 0,
     One \div 3, One \div 2, (2 * One) \div 3, One, 2 * One}

PeaksValleysNoise ==
    /\ ret.op \in {"init", "peaks_valleys_noise"}
    /\ \E variance \in Variances :
        ret' = [op |-> "peaks_valleys_noise", variance |-> variance,
                value |-> peaks_valleys_noise(variance)]
    /\ UNCHANGED nodes

Init ==
    /\ nodes = << >>
    /\ ret = [op |-> "init"]

Next ==
    \/ NewConstant
    \/ NewBeardifyer
    \/ NewClampedY
    \/ NewWrapper
    \/ NewRange
    \/ Sample
    \/ Fill

Spec == Init /\ [][Next]_vars

NextApply ==
    \/ NewConstant
    \/ NewBeardifyer
    \/ NewClampedY
    \/ NewWrapper
    \/ NewRange
    \/ Apply

SpecApply == Init /\ [][NextApply]_vars

NextLerp ==
    \/ NewConstant
    \/ NewBeardifyer
    \/ NewClampedY
    \/ NewWrapper
    \/ NewRange
    \/ LerpDensity

SpecLerp == Init /\ [][NextLerp]_vars

NextBuiltIn ==
    \/ BuiltInNoiseFunctionsNew
    \/ SampleBuiltIn
    \/ PeaksValleysNoise

SpecBuiltIn == Init /\ [][NextBuiltIn]_vars

NextBuilder ==
    \/ NewConstant
    \/ NewClampedY
    \/ NewBuiltInClampedY
    \/ NoiseInRange
    \/ VerticalRangeChoice
    \/ Clamp
    \/ SampleColumn

SpecBuilder == Init /\ [][NextBuilder]_vars

NextBlend ==
    \/ NewConstant
    \/ NewBeardifyer
    \/ NewClampedY
    \/ NewWrapper
    \/ NewRange
    \/ NewBlend
    \/ ApplyBlending

SpecBlend == Init /\ [][NextBlend]_vars

(* ------------------------------ properties ----------------------------- *)

\* C1: a Range node whose input is Constant(v) samples its in_range branch
\* when min <= v < max (min inclusive, max exclusive) and its out_range
\* branch otherwise, at every position.
C1_RangeSelector ==
    (/\ ret.op = "sample"
     /\ nodes[ret.function].kind = "Range"
     /\ nodes[nodes[ret.function].input].kind = "Constant")
    => LET self == nodes[ret.function]
           v == nodes[self.input].value
       IN  ret.value =
             IF self.min <= v /\ v < self.max
             THEN DensityFunction_sample(nodes, self.in_range, ret.pos)
             ELSE DensityFunction_sample(nodes, self.out_range, ret.pos)

\* A Range was sampled whose constant input sits on the inclusive lower limit
\* and whose two branches sample differently there.
C1_Witness ==
    /\ ret.op = "sample"
    /\ nodes[ret.function].kind = "Range"
    /\ nodes[nodes[ret.function].input].kind = "Constant"
    /\ nodes[nodes[ret.function].input].value = nodes[ret.function].min
    /\ nodes[ret.function].min < nodes[ret.function].max
    /\ DensityFunction_sample(nodes, nodes[ret.function].in_range, ret.pos)
         # DensityFunction_sample(nodes, nodes[ret.function].out_range, ret.pos)
    /\ ret.value = DensityFunction_sample(nodes, nodes[ret.function].in_range, ret.pos)

\* C2: every node of a graph of Constant, ClampedY, Beardifyer, Range and
\* Wrapper nodes has min() <= sample(p) <= max() and min() <= max(); a
\* Constant has min = max = sample = value.
C2_Bounds ==
    ret.op = "sample"
    => LET lo == DensityFunction_min(nodes, ret.function)
           hi == DensityFunction_max(nodes, ret.function)
       IN  /\ lo <= ret.value
           /\ ret.value <= hi
           /\ lo <= hi
           /\ nodes[ret.function].kind = "Constant"
                => /\ lo = nodes[ret.function].value
                   /\ hi = nodes[ret.function].value
                   /\ ret.value = nodes[ret.function].value

\* A Range was sampled that returned its static minimum, which only its
\* out_range branch reaches.
C2_Witness ==
    /\ ret.op = "sample"
    /\ nodes[ret.function].kind = "Range"
    /\ ret.value = DensityFunction_min(nodes, ret.function)
    /\ ret.value < DensityFunction_min(nodes, nodes[ret.function].in_range)
    /\ DensityFunction_min(nodes, ret.function) < DensityFunction_max(nodes, ret.function)

\* C3: fill(buf, A) leaves buf[i] = sample(A.at(i)) for every index i of the
\* applier, also for a Range, which bulk-fills buf with its selector input
\* before it overwrites each slot.
C3_BulkConsistency ==
    ret.op = "fill"
    => /\ DOMAIN ret.densities = DOMAIN ret.applier
       /\ \A i \in DOMAIN ret.applier :
            ret.densities[i] =
              DensityFunction_sample(nodes, ret.function, Applier_at(ret.applier, i))

\* A Range was filled over two positions that select different branches, and
\* the in-range slot lost the selector value the bulk fill had put there.
C3_Witness ==
    /\ ret.op = "fill"
    /\ nodes[ret.function].kind = "Range"
    /\ DOMAIN ret.applier = 0 .. 1
    /\ LET self == nodes[ret.function]
           d0 == DensityFunction_sample(nodes, self.input, Applier_at(ret.applier, 0))
           d1 == DensityFunction_sample(nodes, self.input, Applier_at(ret.applier, 1))
       IN  /\ d0 >= self.min /\ d0 < self.max
           /\ ~(d1 >= self.min /\ d1 < self.max)
           /\ ret.densities[0] # d0
           /\ ret.densities[0] # ret.densities[1]

\* C4: the graph apply(UnwrapVisitor) returns holds no Wrapper node.
C4_NoWrapperRemains ==
    ret.op = "apply"
    => \A h \in Reachable(nodes, ret.result) : nodes[h].kind # "Wrapper"

\* A Wrapper directly nested in a Wrapper was unwrapped.
C4_Witness ==
    /\ ret.op = "apply"
    /\ ret.round = 1
    /\ nodes[ret.function].kind = "Wrapper"
    /\ nodes[nodes[ret.function].input].kind = "Wrapper"
    /\ nodes[ret.result].kind # "Wrapper"

\* C5: unwrapping the unwrapped graph again returns a graph of the same
\* structure (kinds, parameters, children), whatever the handles.
C5_IdempotentUnwrap ==
    (ret.op = "apply" /\ ret.round >= 2)
    => Structure(nodes, ret.result) = Structure(nodes, ret.function)

\* A Range with a Wrapper child was unwrapped twice.
C5_Witness ==
    /\ ret.op = "apply"
    /\ ret.round = 2
    /\ nodes[ret.root].kind = "Range"
    /\ nodes[nodes[ret.root].in_range].kind = "Wrapper"
    /\ nodes[ret.result].kind = "Range"
    /\ ret.result # ret.function

\* C6: the visitor is handed a node only after every child of it has been
\* through apply, and the node it is handed holds the rewritten children: each
\* child handle is a node made by this traversal and returned by an earlier
\* visitor call.
C6_PostOrder ==
    ret.op = "apply"
    => \A k \in DOMAIN ret.calls :
         \A c \in Elements(Children(nodes[ret.calls[k].function])) :
            /\ c > ret.base
            /\ \E j \in 1 .. (k - 1) : ret.calls[j].result = c

\* The visitor examined a Wrapper below a Range: after its own child, before
\* the Range.
C6_Witness ==
    /\ ret.op = "apply"
    /\ nodes[ret.function].kind = "Range"
    /\ \E k \in DOMAIN ret.calls :
         /\ 1 < k /\ k < Len(ret.calls)
         /\ nodes[ret.calls[k].function].kind = "Wrapper"
         /\ ret.calls[k - 1].result = nodes[ret.calls[k].function].input

\* The handles apply visits below f, in the order it visits them.
RECURSIVE PostOrder(_, _)
PostOrder(heap, f) ==
    LET cs == Children(heap[f])
        below[i \in 0 .. Len(cs)] ==
            IF i = 0 THEN << >> ELSE below[i - 1] \o PostOrder(heap, cs[i])
    IN  Append(below[Len(cs)], f)

\* C7: a handle that sits in several child slots is rewritten once and is one
\* handle afterwards: the visitor is called once per distinct handle, and two
\* visits of one handle return one handle.
C7_SharingPreserved ==
    ret.op = "apply"
    => LET visited == PostOrder(nodes, ret.function)
       IN  /\ Len(ret.calls) = Cardinality(Reachable(nodes, ret.function))
           /\ \A j, k \in DOMAIN visited :
                visited[j] = visited[k] => ret.calls[j].result = ret.calls[k].result

C9_WrapperTransparent ==
    (ret.op \in {"sample", "fill"} /\ nodes[ret.function].kind = "Wrapper")
    => LET input == nodes[ret.function].input
       IN  /\ DensityFunction_min(nodes, ret.function) = DensityFunction_min(nodes, input)
           /\ DensityFunction_max(nodes, ret.function) = DensityFunction_max(nodes, input)
           /\ ret.op = "sample"
                => ret.value = DensityFunction_sample(nodes, input, ret.pos)
           /\ ret.op = "fill"
                => ret.densities =
                     DensityFunction_fill(nodes, input,
                         [i \in DOMAIN ret.applier |-> 7], ret.applier)

\* A CacheFlat Wrapper over a function that varies with the height was filled
\* over two positions.
C9_Witness ==
    /\ ret.op = "fill"
    /\ nodes[ret.function].kind = "Wrapper"
    /\ nodes[ret.function].wrapper = "CacheFlat"
    /\ DOMAIN ret.applier = 0 .. 1
    /\ ret.densities[0] # ret.densities[1]

C11_PeaksValleysStated ==
    ret.op = "peaks_valleys_noise"
    => /\ ret.value = IF f64_abs(ret.variance) >= (2 * One) \div 3
                      THEN 3 * One - 3 * f64_abs(ret.variance)
                      ELSE 3 * f64_abs(ret.variance) - One
       /\ ret.variance = 0 => ret.value = One
       /\ ret.variance = One => ret.value = -One
       /\ ret.variance = (2 * One) \div 3 => ret.value = One

\* C11 amended: the same fold, which is -1 at v = 0, 0 at v = 1 and 1 at
\* v = 2/3.
C11_PeaksValleys ==
    ret.op = "peaks_valleys_noise"
    => /\ ret.value = IF f64_abs(ret.variance) >= (2 * One) \div 3
                      THEN 3 * One - 3 * f64_abs(ret.variance)
                      ELSE 3 * f64_abs(ret.variance) - One
       /\ ret.variance = 0 => ret.value = -One
       /\ ret.variance = One => ret.value = 0
       /\ ret.variance = (2 * One) \div 3 => ret.value = One

\* peaks_valleys_noise was called at a negative weirdness between the two
\* folds and returned a value strictly between -1 and 1.
C11_Witness ==
    /\ ret.op = "peaks_valleys_noise"
    /\ ret.variance = -(One \div 2)
    /\ ret.value = One \div 2

\* C12: a ClampedY node samples from_val at every height y <= from, to_val at
\* every y >= to and from_val + (y - from) / (to - from) * (to_val - from_val)
\* between them, whatever x is, always within [min(from_val, to_val),
\* max(from_val, to_val)]; ClampedY(-64, 320, 1.564, -1.5) is 1.564 at y = -64
\* and -1.5 at y = 320; the root y = ClampedY(a, b, a, b) returns the height
\* itself inside [a, b].
C12_ClampedY ==
    (ret.op = "sample" /\ nodes[ret.function].kind = "ClampedY")
    => LET self == nodes[ret.function]
           y == ret.pos.y
           lo == IF self.from_val <= self.to_val THEN self.from_val ELSE self.to_val
           hi == IF self.from_val <= self.to_val THEN self.to_val ELSE self.from_val
       IN  /\ y <= self.from => ret.value = self.from_val
           /\ y >= self.to => ret.value = self.to_val
           /\ (self.from < y /\ y < self.to)
                => ret.value * (self.to - self.from) =
                     self.from_val * (self.to - self.from)
                       + (y - self.from) * (self.to_val - self.from_val)
           /\ lo <= ret.value /\ ret.value <= hi
           /\ (self.from_val = self.from * One /\ self.to_val = self.to * One
                 /\ self.from <= y /\ y <= self.to)
                => ret.value = y * One
           /\ (self.from = -64 /\ self.to = 320 /\ y = -64
                 /\ self.from_val = (1564 * One) \div 1000)
                => ret.value = (1564 * One) \div 1000
           /\ (self.from = -64 /\ self.to = 320 /\ y = 320
                 /\ self.to_val = -((3 * One) \div 2))
                => ret.value = -((3 * One) \div 2)

\* The depth gradient ClampedY(-64, 320, 1.564, -1.5) was sampled half way up,
\* at y = 128 away from x = 0, and returned 0.032.
C12_Witness ==
    /\ ret.op = "sample"
    /\ nodes[ret.function] =
         YClampedFunction_new(-64, 320, (1564 * One) \div 1000, -((3 * One) \div 2))
    /\ ret.pos.y = 128
    /\ ret.pos.x = 4
    /\ ret.value = (32 * One) \div 1000

\* The graph Constant((min + max) / 2) + Constant((max - min) / 2) *
\* Noise(param, xz, y) behind handle f, and its sample at every position.
MappedNoise(f, noise, xz_scale, y_scale, min, max) ==
    /\ nodes[f].kind = "Binary"
    /\ nodes[f].binary_type = "Add"
    /\ nodes[nodes[f].arg1].kind = "Constant"
    /\ 2 * nodes[nodes[f].arg1].value = min + max
    /\ LET product == nodes[nodes[f].arg2]
       IN  /\ product.kind = "Binary"
           /\ product.binary_type = "Mul"
           /\ nodes[product.arg1].kind = "Constant"
           /\ 2 * nodes[product.arg1].value = max - min
           /\ nodes[product.arg2] = NoiseFunction_new(noise, xz_scale, y_scale)
    /\ \A pos \in ColumnPos :
         2 * One * DensityFunction_sample(nodes, f, pos) =
           (min + max) * One
             + (max - min)
                 * NoiseFunction_sample(nodes,
                       NoiseFunction_new(noise, xz_scale, y_scale), pos)

\* C13 as stated: for a noise parameter with max_value 1, noise_in_range(param,
\* xz, y, min, max) builds Constant((min + max) / 2) + Constant((max - min) / 2)
\* * Noise(param, xz, y), samples accordingly, and has min() = min and
\* max() = max.
C13_NoiseInRangeStated ==
    (ret.op = "noise_in_range" /\ ret.noise.max_value = One)
    => /\ MappedNoise(ret.result, ret.noise, ret.xz_scale, ret.y_scale,
                      ret.min, ret.max)
       /\ DensityFunction_min(nodes, ret.result) = ret.min
       /\ DensityFunction_max(nodes, ret.result) = ret.max

\* C13 amended: the same graph and sample; min() is the lesser and max() the
\* greater of the two arguments, so min() = min and max() = max when
\* min <= max.
C13_NoiseInRange ==
    (ret.op = "noise_in_range" /\ ret.noise.max_value = One)
    => /\ MappedNoise(ret.result, ret.noise, ret.xz_scale, ret.y_scale,
                      ret.min, ret.max)
       /\ DensityFunction_min(nodes, ret.result) =
            (IF ret.min <= ret.max THEN ret.min ELSE ret.max)
       /\ DensityFunction_max(nodes, ret.result) =
            (IF ret.min <= ret.max THEN ret.max ELSE ret.min)
       /\ (ret.min = -(One \div 10) /\ ret.max = One \div 10)
            => /\ DensityFunction_min(nodes, ret.result) = -(One \div 10)
               /\ DensityFunction_max(nodes, ret.result) = One \div 10

\* noise_in_range was called as the builder calls it for the spaghetti
\* roughness modulator, with (0, -0.1): its lower bound is -0.1, and the noise
\* reaches it.
C13_Witness ==
    /\ ret.op = "noise_in_range"
    /\ ret.noise.max_value = One
    /\ ret.min = 0
    /\ ret.max = -(One \div 10)
    /\ DensityFunction_min(nodes, ret.result) = -(One \div 10)
    /\ \E pos \in ColumnPos :
         DensityFunction_sample(nodes, ret.result, pos) = -(One \div 10)

\* C14: veritcal_range_choice(input, in_range, min_y, max_y, out) is an
\* Interpolated Wrapper over Range(input, min_y, max_y + 1, in_range,
\* Constant(out)); at every position it samples in_range when
\* min_y <= sample(input) < max_y + 1, so also when sample(input) = max_y, and
\* out otherwise.
C14_VerticalRangeChoice ==
    ret.op = "veritcal_range_choice"
    => /\ nodes[ret.result].kind = "Wrapper"
       /\ nodes[ret.result].wrapper = "Interpolated"
       /\ LET range == nodes[nodes[ret.result].input]
          IN  /\ range.kind = "Range"
              /\ range.input = ret.input
              /\ range.min = ret.min * One
              /\ range.max = (ret.max + 1) * One
              /\ range.in_range = ret.in_range
              /\ nodes[range.out_range] = ConstantFunction_new(ret.out * One)
       /\ \A pos \in ColumnPos :
            LET d == DensityFunction_sample(nodes, ret.input, pos)
            IN  DensityFunction_sample(nodes, ret.result, pos) =
                  IF ret.min * One <= d /\ d < (ret.max + 1) * One
                  THEN DensityFunction_sample(nodes, ret.in_range, pos)
                  ELSE ret.out * One

\* The choice was built over the root y with the limits -60 and 320, and at
\* the height y = 320 = max_y it samples in_range, not out.
C14_Witness ==
    /\ ret.op = "veritcal_range_choice"
    /\ ret.min = -60
    /\ ret.max = 320
    /\ \E pos \in ColumnPos :
         /\ pos.y = 320
         /\ DensityFunction_sample(nodes, ret.input, pos) = 320 * One
         /\ DensityFunction_sample(nodes, ret.result, pos)
              = DensityFunction_sample(nodes, ret.in_range, pos)
         /\ DensityFunction_sample(nodes, ret.result, pos) # ret.out * One

\* The common subterms of BuiltInNoiseFunctions::new.
CommonSubterms == {"shift_x", "ridges_overworld", "base_3d_noise_overworld"}

\* The handles reachable from a root of the struct that hold a node equal to
\* the one behind the root `name`.
Occurrences(name) ==
    {h \in UNION {Reachable(nodes, ret.functions[root]) : root \in DOMAIN ret.functions} :
        nodes[h] = nodes[ret.functions[name]]}

\* C15: in the graph built by BuiltInNoiseFunctions::new, shift_x,
\* ridges_overworld and base_3d_noise_overworld exist exactly once: whatever
\* root reaches one of these nodes reaches the handle of the named root, never
\* a separate copy of the node.  (Violated: ridges_overworld.abs() allocates a
\* clone of ridges_overworld under ridges_folded_overworld.)
C15_CommonSubtermsOnce ==
    ret.op = "built_in" =>
        \A name \in CommonSubterms : Occurrences(name) = {ret.functions[name]}

\* The getters of one SlopedCheeseResult, per bundle.
Bundles ==
    {[offset |-> "offset_overworld", factor |-> "factor_overworld",
      jaggedness |-> "jaggedness_overworld", depth |-> "depth_overworld",
      sloped_cheese |-> "sloped_cheese_overworld"],
     [offset |-> "offset_overworld_large_biome",
      factor |-> "factor_overworld_large_biome",
      jaggedness |-> "jaggedness_overworld_large_biome",
      depth |-> "depth_overworld_large_biome",
      sloped_cheese |-> "sloped_cheese_overworld_large_biome"],
     [offset |-> "offset_overworld_amplified",
      factor |-> "factor_overworld_amplified",
      jaggedness |-> "jaggedness_overworld_amplified",
      depth |-> "depth_overworld_amplified",
      sloped_cheese |-> "sloped_cheese_overworld_amplified"]}

\* x where x > 0, x * 0.5 otherwise.
HalfNeg(x) == IF x > 0 THEN x ELSE f64_mul(x, One \div 2)

\* x where x > 0, x * 0.25 otherwise.
QuartNeg(x) == IF x > 0 THEN x ELSE f64_mul(x, One \div 4)

\* The value of the root `name` of the struct at the sampled position.
SampledAt(name) == DensityFunction_sample(nodes, ret.functions[name], ret.pos)

\* The value of Noise(jagged, 1500, 0) at the sampled position.
JaggedAt ==
    NoiseFunction_sample(nodes, NoiseFunction_new(ret.params.jagged, 1500 * One, 0),
                         ret.pos)

\* ClampedY(-64, 320, 1.564, -1.5) at the sampled height.
DepthGradientAt ==
    clamped_map(ret.pos.y, -64, 320, (1564 * One) \div 1000, -((3 * One) \div 2))

\* (depth + jaggedness * HalfNeg(jagged_noise)) * factor at the sampled position.
SlopeAt(b) ==
    f64_mul(SampledAt(b.depth) + f64_mul(SampledAt(b.jaggedness), HalfNeg(JaggedAt)),
            SampledAt(b.factor))

\* C16: the graph of sloped_cheese_function samples
\* depth = ClampedY(-64, 320, 1.564, -1.5)(y) + offset and
\* sloped_cheese = 4 * QuartNeg((depth + jaggedness * HalfNeg(jagged_noise))
\* * factor) + base_3d_noise, whatever offset, factor, jaggedness, jagged_noise
\* and base_3d_noise sample to.
C16_SlopedCheese ==
    ret.op = "sample_built_in" =>
        \A b \in Bundles :
            /\ ret.name = b.depth =>
                  ret.value = DepthGradientAt + SampledAt(b.offset)
            /\ ret.name = b.sloped_cheese =>
                  ret.value = f64_mul(4 * One, QuartNeg(SlopeAt(b)))
                              + SampledAt("base_3d_noise_overworld")

\* A sloped cheese sampled where both HalfNeg and QuartNeg scale their argument
\* and every term of the formula is nonzero.
C16_Witness ==
    /\ ret.op = "sample_built_in"
    /\ \E b \in Bundles :
          /\ ret.name = b.sloped_cheese
          /\ JaggedAt < 0
          /\ SampledAt(b.jaggedness) # 0
          /\ SlopeAt(b) < 0
          /\ SampledAt(b.offset) # 0
          /\ SampledAt("base_3d_noise_overworld") # 0
          /\ DepthGradientAt \notin {(1564 * One) \div 1000, -((3 * One) \div 2)}

\* C17: x.clamp(lo, hi) with lo <= hi builds a Clamp node over x whose field
\* min is lo and whose field max is hi, so that min <= max and the node
\* samples clamp(sample(x), lo, hi).  (Violated: the parameters of
\* DensityFunction::clamp are declared in the order (max, min).)
C17_ClampBounds ==
    (ret.op = "clamp" /\ ret.lo <= ret.hi) =>
        LET node == nodes[ret.result]
        IN  /\ node.kind = "Clamp"
            /\ nodes[node.input] = nodes[ret.self]
            /\ node.min = ret.lo
            /\ node.max = ret.hi
            /\ node.min <= node.max
            /\ \A pos \in ColumnPos :
                  DensityFunction_sample(nodes, ret.result, pos)
                    = f64_max(ret.lo, f64_min(ret.hi,
                          DensityFunction_sample(nodes, ret.self, pos)))

\* The handles lerp_density allocated that hold a CacheOnce Wrapper of delta.
DeltaWrappers ==
    {h \in (ret.base + 1) .. Len(nodes) :
        nodes[h] = WrapperFunction_new(ret.delta, "CacheOnce")}

C19_RidgesFolded ==
    (ret.op = "sample_built_in" /\ ret.name = "ridges_folded_overworld") =>
        LET r == SampledAt("ridges_overworld")
        IN  /\ ret.value = f64_mul(f64_abs(f64_abs(r) - (2 * One) \div 3) - One \div 3,
                                   -3 * One)
            /\ ret.value = peaks_valleys_noise(r)

\* ridges_folded_overworld sampled where ridges_overworld is negative and
\* within 2/3 of 0: both abs() change the sign of their argument.
C19_Witness ==
    /\ ret.op = "sample_built_in"
    /\ ret.name = "ridges_folded_overworld"
    /\ SampledAt("ridges_overworld") < 0
    /\ f64_abs(SampledAt("ridges_overworld")) < (2 * One) \div 3
    /\ ret.value # 0

DeltaInProduct == nodes[nodes[ret.result].arg2].arg2

\* The handle negated inside 1 - delta in the result of lerp_density, start no
\* Constant: start * ((delta * -1) + 1), from the root down.
DeltaInDifference ==
    LET left == nodes[nodes[ret.result].arg1]
        one_minus == nodes[left.arg2]
        negated == nodes[one_minus.arg1]
    IN  negated.arg1

\* C21: where start is no Constant, the delta inside 1 - delta and the delta
\* multiplied with end are one and the same CacheOnce Wrapper handle, so the
\* graph lerp_density built holds exactly one CacheOnce node for delta.
\* (Violated: function.mul_const(-1) clones the Wrapper into a new Arc.)
C21_OneCacheOnce ==
    (ret.op = "lerp_density" /\ nodes[ret.start].kind # "Constant") =>
        LET wrapper == WrapperFunction_new(ret.delta, "CacheOnce")
        IN  /\ nodes[DeltaInProduct] = wrapper
            /\ nodes[DeltaInDifference] = wrapper
            /\ DeltaInDifference = DeltaInProduct
            /\ (nodes[ret.start] # wrapper /\ nodes[ret.end] # wrapper)
                  => Cardinality(DeltaWrappers \cap Reachable(nodes, ret.result)) = 1

====
